---- MODULE Spec2Model ----
(***************************************************************************)
(* A model of health_bot.py: the start-up sequence of main(), the /start   *)
(* command handler, and handle_message with its per-user conversation      *)
(* history, its call of the completion service and its except branches.    *)
(*                                                                         *)
(* An asyncio handler runs without interruption between two awaits, and    *)
(* the only awaits of the handlers are the reply_text calls.  The call of  *)
(* the completion service is a blocking call of the synchronous client: it *)
(* is a step of its own (the call is made, the call returns or times out), *)
(* during which no other handler runs.  The Application is built without   *)
(* concurrent_updates, so in Spec and SpecLong the next update is          *)
(* dispatched when the previous handler has returned; SpecConc is the same *)
(* program under an Application that runs handlers concurrently, where a   *)
(* handler waiting in an await lets the others run.                        *)
(***************************************************************************)
EXTENDS Integers, Sequences, FiniteSets, TLC

\* Bounds of the model: the number of text messages handled in a run of
\* Spec (every kind of update, two texts), and in a run of SpecLong (text
\* messages of one text only, enough of them to outgrow the window).
MaxMessages == 3

MaxLongMessages == 6

\* Bounds of SpecConc: the text messages handled, and the handlers that
\* wait in an await while another one runs.
MaxConcMessages == 2

MaxParked == 1

\* health_bot.py:94, the slice [-10:]
WindowSize == 10

\* Python's None, where a string is expected.
None == "<None>"

\* Telegram users (update.effective_user.id).
Users == {"u1", "u2"}

\* Non-empty texts of inbound messages.
Texts == {"a", "b"}

\* Non-empty contents the completion service answers with.
Replies == {"r"}

\* An inbound update: update.message is None, or a message whose text is
\* None (a photo, a sticker), empty, or a text.
Updates ==
    {[hasMessage |-> FALSE, text |-> None]}
        \cup {[hasMessage |-> TRUE, text |-> t] : t \in {None, ""} \cup Texts}

\* The updates of SpecLong: no message, or a message with the text "a".
LongUpdates ==
    {[hasMessage |-> FALSE, text |-> None], [hasMessage |-> TRUE, text |-> "a"]}

\* Values of an environment variable: unset, set to the empty string, set.
EnvValues == {None, "", "secret"}

\* health_bot.py:18-51
SYSTEM_PROMPT == "You are Dr. MasterPA ..."

\* health_bot.py:60-68
WelcomeMessage == "Hi! I'm your health assistant. ..."

\* health_bot.py:122
ConnectFallback ==
    "I'm having trouble connecting right now. Please try again in a moment."

\* health_bot.py:127
GenericFallback == "Something went wrong. Please try again."

\* A variant of Truthy: `x is not None`, which lets the empty string pass.
TruthyNotNone(x) == x # None

\* Python truthiness of an Optional[str]: `not x` holds of None and of "".
Truthy(x) == x # None /\ x # ""

\* What client.chat.completions.create and line 108 can produce: a response
\* whose first choice has some content (possibly None or empty), a response
\* with no choice at all (IndexError at line 108), or one of the OpenAIError
\* subclasses: APIStatusError (the service rejected the request),
\* APITimeoutError (the 30 s timeout expired), APIConnectionError (network).
OpenAIErrors == {"APIStatusError", "APITimeoutError", "APIConnectionError"}

GatewayOutcomes ==
    {[kind |-> "response", content |-> c] : c \in Replies \cup {None, ""}}
        \cup {[kind |-> "no_choices", content |-> None]}
        \cup {[kind |-> k, content |-> None] : k \in OpenAIErrors}

VARIABLES
    env,        \* the environment: TELEGRAM_BOT_TOKEN and OPENAI_API_KEY
    mainPc,     \* where main() is
    client,     \* the global client: None or "OpenAI"
    handlers,   \* the handlers registered with the Application
    user_data,  \* key -> [has, conversation]: context.user_data of each user
    pc,         \* where the handler of the current update is
    cur,        \* the update being handled (or handled last) and its outcome
    request,    \* the requests made to the completion service for cur
    outbox,     \* the reply_text calls made for cur, each with its result
    appended,   \* history: the turns appended on behalf of each user
    handled,    \* number of text messages handled so far
    parked      \* the handlers waiting in an await while another one runs

vars ==
    <<env, mainPc, client, handlers, user_data, pc, cur, request, outbox,
      appended, handled, parked>>

----------------------------------------------------------------------------
\* Helpers of the handlers.

Turn(role, content) == [role |-> role, content |-> content]

\* A variant of UserDataKey: one dict for every user (as context.bot_data).
UserDataKeyShared(u) == "u1"

\* context.user_data is the dict of the update's effective user.
UserDataKey(u) == u

\* lines 84-85: create the list unless the key is there.
EnsureConversation(ud) ==
    IF ud.has THEN ud ELSE [has |-> TRUE, conversation |-> <<>>]

\* A variant of AppendTurn: list.insert(0, turn).
AppendTurnFront(ud, turn) ==
    [ud EXCEPT !.conversation = <<turn>> \o ud.conversation]

\* A variant of AppendTurn: the stored list itself is cut to the last ten.
AppendTurnTrim(ud, turn) ==
    LET c == Append(ud.conversation, turn)
    IN  [ud EXCEPT !.conversation =
            IF Len(c) <= 10 THEN c ELSE SubSeq(c, Len(c) - 9, Len(c))]

\* lines 91 and 114: list.append.
AppendTurn(ud, turn) ==
    [ud EXCEPT !.conversation = Append(ud.conversation, turn)]

\* A variant of RecentWindow: conversation[:10], the oldest ten.
RecentWindowFirst(conversation) ==
    IF Len(conversation) <= 10 THEN conversation
    ELSE SubSeq(conversation, 1, 10)

\* A variant of RecentWindow: nothing unless ten turns are there.
RecentWindowFullOnly(conversation) ==
    IF Len(conversation) < 10 THEN <<>>
    ELSE SubSeq(conversation, Len(conversation) - 9, Len(conversation))

\* line 94: conversation[-10:], the whole list when it is shorter.
RecentWindow(conversation) ==
    IF Len(conversation) <= WindowSize
    THEN conversation
    ELSE SubSeq(conversation, Len(conversation) - WindowSize + 1,
                Len(conversation))

\* A variant of BuildRequest: the system prompt sent with the first message
\* of a conversation only.
BuildRequestSystemOnce(history) ==
    [model |-> "gpt-4o",
     messages |-> IF Len(history) = 1
                  THEN <<Turn("system", SYSTEM_PROMPT)>> \o history
                  ELSE history,
     temperature |-> "0.7",
     max_tokens |-> 400,
     timeout |-> "30.0"]

\* A variant of BuildRequest: line 105 left out, the call is given no timeout.
BuildRequestNoTimeout(history) ==
    [model |-> "gpt-4o",
     messages |-> <<Turn("system", SYSTEM_PROMPT)>> \o history,
     temperature |-> "0.7",
     max_tokens |-> 400,
     timeout |-> None]

\* lines 97-106: the arguments of client.chat.completions.create.
BuildRequest(history) ==
    [model |-> "gpt-4o",
     messages |-> <<Turn("system", SYSTEM_PROMPT)>> \o history,
     temperature |-> "0.7",
     max_tokens |-> 400,
     timeout |-> "30.0"]

\* A variant of AfterCall: `except Exception` written first, so that it
\* catches the OpenAIErrors too.
AfterCallGenericFirst(outcome) ==
    IF outcome.kind \in OpenAIErrors THEN "fallback_generic"
    ELSE IF outcome.kind = "no_choices" THEN "fallback_generic"
    ELSE IF ~Truthy(outcome.content) THEN "fallback_generic"
    ELSE "reply"

\* A variant of AfterCall: lines 110-111 left out.
AfterCallNoEmptyCheck(outcome) ==
    IF outcome.kind \in OpenAIErrors THEN "fallback_openai"
    ELSE IF outcome.kind = "no_choices" THEN "fallback_generic"
    ELSE "reply"

\* A variant of AfterCall: an OpenAIError makes the handler call again.
AfterCallRetry(outcome) ==
    IF outcome.kind \in OpenAIErrors THEN "calling"
    ELSE IF outcome.kind = "no_choices" THEN "fallback_generic"
    ELSE IF ~Truthy(outcome.content) THEN "fallback_generic"
    ELSE "reply"

\* lines 108-111 and the except clauses 119 and 124: where control goes
\* after the call: on to line 113, or into one of the two except branches.
AfterCall(outcome) ==
    IF outcome.kind \in OpenAIErrors THEN "fallback_openai"
    ELSE IF outcome.kind = "no_choices" THEN "fallback_generic"
    ELSE IF ~Truthy(outcome.content) THEN "fallback_generic"
    ELSE "reply"

\* cur before the first update: op is the handler called ("none" so far),
\* hasMessage and text are the update's, pre is the conversation of the user
\* when the handler was entered and atCall the one when the completion
\* service was called, attempts counts the calls that have ended, kind and
\* content are what the last one produced, escaped tells that an exception
\* left the handler.
NoCur ==
    [op |-> "none", user |-> None, hasMessage |-> FALSE, text |-> None,
     pre |-> <<>>, atCall |-> <<>>, attempts |-> 0, kind |-> None,
     content |-> None, escaped |-> FALSE]

----------------------------------------------------------------------------
Init ==
    /\ env \in [{"TELEGRAM_BOT_TOKEN", "OPENAI_API_KEY"} -> EnvValues]
    /\ mainPc = "start"
    /\ client = None
    /\ handlers = {}
    /\ user_data = [k \in Users |-> [has |-> FALSE, conversation |-> <<>>]]
    /\ pc = "idle"
    /\ cur = NoCur
    /\ request = <<>>
    /\ outbox = <<>>
    /\ appended = [u \in Users |-> <<>>]
    /\ handled = 0
    /\ parked = {}

----------------------------------------------------------------------------
\* main()

\* A variant of MissingVariable: the check of lines 143-144 left out.
MissingVariableTokenOnly(e) ==
    IF ~Truthy(e["TELEGRAM_BOT_TOKEN"]) THEN "TELEGRAM_BOT_TOKEN" ELSE None

\* lines 136-146: which variable validate_environment finds missing.
MissingVariable(e) ==
    IF ~Truthy(e["TELEGRAM_BOT_TOKEN"]) THEN "TELEGRAM_BOT_TOKEN"
    ELSE IF ~Truthy(e["OPENAI_API_KEY"]) THEN "OPENAI_API_KEY"
    ELSE None

\* line 155; a ValueError goes through line 173-175 and out of main().
ValidateEnvironment ==
    /\ mainPc = "start"
    /\ mainPc' = IF MissingVariable(env) # None THEN "config_error"
                 ELSE "validated"
    /\ UNCHANGED <<env, client, handlers, user_data, pc, cur, request, outbox,
                   appended, handled, parked>>

\* line 156
CreateClient ==
    /\ mainPc = "validated"
    /\ client' = "OpenAI"
    /\ mainPc' = "client"
    /\ UNCHANGED <<env, handlers, user_data, pc, cur, request, outbox,
                   appended, handled, parked>>

\* lines 159-164
AddHandlers ==
    /\ mainPc = "client"
    /\ handlers' = {"start", "handle_message", "error_handler"}
    /\ mainPc' = "handlers"
    /\ UNCHANGED <<env, client, user_data, pc, cur, request, outbox,
                   appended, handled, parked>>

\* lines 167-171
RunPolling ==
    /\ mainPc = "handlers"
    /\ mainPc' = "polling"
    /\ UNCHANGED <<env, client, handlers, user_data, pc, cur, request, outbox,
                   appended, handled, parked>>

\* The Application dispatches an update to a handler: it is polling, the
\* handler is registered, and the previous update's handler has returned.
Dispatching(h) == mainPc = "polling" /\ h \in handlers /\ pc = "idle"

----------------------------------------------------------------------------
\* A variant of Start: /start also begins a fresh conversation.
StartResetting(u, upd) ==
    /\ Dispatching("start")
    /\ cur' = [NoCur EXCEPT !.op = "start", !.user = u,
                            !.hasMessage = upd.hasMessage,
                            !.text = upd.text]
    /\ request' = <<>>
    /\ IF ~upd.hasMessage
       THEN outbox' = <<>> /\ UNCHANGED user_data
       ELSE /\ \E ok \in BOOLEAN :
                 outbox' = <<[text |-> WelcomeMessage, ok |-> ok]>>
            /\ user_data' =
                 [user_data EXCEPT ![UserDataKey(u)] =
                     [has |-> TRUE, conversation |-> <<>>]]
    /\ UNCHANGED <<env, mainPc, client, handlers, pc, appended, handled, parked>>

\* start(), lines 54-72.  A failing reply_text is caught at line 71.
Start(u, upd) ==
    /\ Dispatching("start")
    /\ cur' = [NoCur EXCEPT !.op = "start", !.user = u,
                            !.hasMessage = upd.hasMessage,
                            !.text = upd.text]
    /\ request' = <<>>
    /\ IF ~upd.hasMessage
       THEN outbox' = <<>>
       ELSE \E ok \in BOOLEAN :
                outbox' = <<[text |-> WelcomeMessage, ok |-> ok]>>
    /\ UNCHANGED <<env, mainPc, client, handlers, user_data, pc, appended,
                   handled, parked>>

----------------------------------------------------------------------------
\* handle_message(), lines 75-106: up to the call of the completion service.
HandleMessage(u, upd) ==
    /\ Dispatching("handle_message")
    /\ outbox' = <<>>
    /\ IF ~upd.hasMessage \/ ~Truthy(upd.text)
       THEN \* lines 77-78
            /\ cur' = [NoCur EXCEPT !.op = "handle_message", !.user = u,
                                    !.hasMessage = upd.hasMessage,
                                    !.text = upd.text]
            /\ request' = <<>>
            /\ UNCHANGED <<user_data, pc, appended, handled>>
       ELSE LET k == UserDataKey(u)
                ud0 == EnsureConversation(user_data[k])
                ud1 == AppendTurn(ud0, Turn("user", upd.text))
                window == RecentWindow(ud1.conversation)
            IN  /\ handled' = handled + 1
                /\ user_data' = [user_data EXCEPT ![k] = ud1]
                /\ request' = <<BuildRequest(window)>>
                /\ pc' = "calling"
                /\ cur' = [NoCur EXCEPT !.op = "handle_message", !.user = u,
                                        !.hasMessage = TRUE,
                                        !.text = upd.text,
                                        !.pre = user_data[k].conversation,
                                        !.atCall = ud1.conversation]
                /\ appended' =
                     [appended EXCEPT ![u] = Append(@, Turn("user", upd.text))]
    /\ UNCHANGED <<env, mainPc, client, handlers, parked>>

\* lines 97-114: the call ends with `outcome`; a reply is appended.
Resolve(outcome) ==
    LET k == UserDataKey(cur.user)
        next == AfterCall(outcome)
        turn == Turn("assistant", outcome.content)
    IN  /\ pc' = next
        /\ cur' = [cur EXCEPT !.kind = outcome.kind,
                              !.content = outcome.content,
                              !.attempts = @ + 1]
        /\ IF next = "reply"
           THEN /\ user_data' = [user_data EXCEPT ![k] = AppendTurn(@, turn)]
                /\ appended' = [appended EXCEPT ![cur.user] = Append(@, turn)]
           ELSE UNCHANGED <<user_data, appended>>
        /\ UNCHANGED <<env, mainPc, client, handlers, request, outbox,
                       handled, parked>>

\* line 97: the service answers, or the call fails, before the timeout.
GatewayResponds ==
    /\ pc = "calling"
    /\ \E outcome \in GatewayOutcomes :
          outcome.kind # "APITimeoutError" /\ Resolve(outcome)

\* lines 97 and 105: the timeout the call was given expires.
GatewayTimesOut ==
    /\ pc = "calling"
    /\ request[1].timeout # None
    /\ Resolve([kind |-> "APITimeoutError", content |-> None])

\* A variant of ReplyText: the generic fallback sent after the reply in any
\* case (the send of line 126 in a `finally`).
ReplyTextThenFallback ==
    /\ pc = "reply"
    /\ \E ok \in BOOLEAN :
         /\ outbox' = Append(outbox, [text |-> cur.content, ok |-> ok])
         /\ pc' = "fallback_generic"
    /\ UNCHANGED <<env, mainPc, client, handlers, user_data, cur, request,
                   appended, handled, parked>>

\* line 116: await update.message.reply_text(bot_reply).  A TelegramError is
\* no OpenAIError, so it is caught at line 124.
ReplyText ==
    /\ pc = "reply"
    /\ \E ok \in BOOLEAN :
         /\ outbox' = Append(outbox, [text |-> cur.content, ok |-> ok])
         /\ pc' = IF ok THEN "idle" ELSE "fallback_generic"
    /\ UNCHANGED <<env, mainPc, client, handlers, user_data, cur, request,
                   appended, handled, parked>>

\* lines 119-123.  An exception raised in an except clause leaves the handler.
FallbackOpenAI ==
    /\ pc = "fallback_openai"
    /\ \E ok \in BOOLEAN :
         /\ outbox' = Append(outbox, [text |-> ConnectFallback, ok |-> ok])
         /\ pc' = IF ok THEN "idle" ELSE "error_handler"
         /\ cur' = [cur EXCEPT !.escaped = ~ok]
    /\ UNCHANGED <<env, mainPc, client, handlers, user_data, request,
                   appended, handled, parked>>

\* lines 124-128
FallbackGeneric ==
    /\ pc = "fallback_generic"
    /\ \E ok \in BOOLEAN :
         /\ outbox' = Append(outbox, [text |-> GenericFallback, ok |-> ok])
         /\ pc' = IF ok THEN "idle" ELSE "error_handler"
         /\ cur' = [cur EXCEPT !.escaped = ~ok]
    /\ UNCHANGED <<env, mainPc, client, handlers, user_data, request,
                   appended, handled, parked>>

\* lines 131-133: the Application hands an exception that left a handler to
\* error_handler, which logs it.
ErrorHandler ==
    /\ pc = "error_handler"
    /\ "error_handler" \in handlers
    /\ pc' = "idle"
    /\ UNCHANGED <<env, mainPc, client, handlers, user_data, cur, request,
                   outbox, appended, handled, parked>>

----------------------------------------------------------------------------
\* Concurrent handlers.

\* A variant of Awaiting: the completion call awaited too (the asynchronous
\* client), so that other handlers run while it is pending.
AwaitingCallToo(p) ==
    p \in {"calling", "reply", "fallback_openai", "fallback_generic"}

\* The places where a handler waits in an await: the reply_text calls of
\* lines 116, 121 and 126.  The call of line 97 is not awaited.
Awaiting(p) == p \in {"reply", "fallback_openai", "fallback_generic"}

\* The running handler waits in an await: the event loop sets it aside.
Park ==
    /\ Awaiting(pc)
    /\ Cardinality(parked) < MaxParked
    /\ parked' = parked \cup {[pc |-> pc, cur |-> cur, request |-> request,
                                outbox |-> outbox]}
    /\ pc' = "idle"
    /\ cur' = NoCur
    /\ request' = <<>>
    /\ outbox' = <<>>
    /\ UNCHANGED <<env, mainPc, client, handlers, user_data, appended,
                   handled>>

\* No handler runs: the event loop goes on with a waiting one.
Resume(h) ==
    /\ pc = "idle"
    /\ h \in parked
    /\ parked' = parked \ {h}
    /\ pc' = h.pc
    /\ cur' = h.cur
    /\ request' = h.request
    /\ outbox' = h.outbox
    /\ UNCHANGED <<env, mainPc, client, handlers, user_data, appended,
                   handled>>

----------------------------------------------------------------------------
Next ==
    \/ ValidateEnvironment
    \/ CreateClient
    \/ AddHandlers
    \/ RunPolling
    \/ \E u \in Users, upd \in Updates : Start(u, upd)
    \/ \E u \in Users, upd \in Updates :
          handled < MaxMessages /\ HandleMessage(u, upd)
    \/ GatewayResponds
    \/ GatewayTimesOut
    \/ ReplyText
    \/ FallbackOpenAI
    \/ FallbackGeneric
    \/ ErrorHandler

Spec == Init /\ [][Next]_vars

\* Long conversations: the same program, fed the updates of LongUpdates.
NextLong ==
    \/ ValidateEnvironment
    \/ CreateClient
    \/ AddHandlers
    \/ RunPolling
    \/ \E u \in Users, upd \in LongUpdates : Start(u, upd)
    \/ \E u \in Users, upd \in LongUpdates :
          handled < MaxLongMessages /\ HandleMessage(u, upd)
    \/ GatewayResponds
    \/ GatewayTimesOut
    \/ ReplyText
    \/ FallbackOpenAI
    \/ FallbackGeneric
    \/ ErrorHandler

SpecLong == Init /\ [][NextLong]_vars

\* The updates of SpecConc: text messages.
ConcUpdates == {[hasMessage |-> TRUE, text |-> t] : t \in Texts}

\* Handlers run concurrently, as under concurrent_updates.
NextConc ==
    \/ ValidateEnvironment
    \/ CreateClient
    \/ AddHandlers
    \/ RunPolling
    \/ \E u \in Users, upd \in ConcUpdates :
          handled < MaxConcMessages /\ HandleMessage(u, upd)
    \/ GatewayResponds
    \/ GatewayTimesOut
    \/ ReplyText
    \/ FallbackOpenAI
    \/ FallbackGeneric
    \/ ErrorHandler
    \/ Park
    \/ \E h \in parked : Resume(h)

SpecConc == Init /\ [][NextConc]_vars

\* Spec with the progress the program is given: a call of the completion
\* service that was given a timeout ends when the timeout expires at the
\* latest, an awaited reply_text returns or raises, and the Application
\* calls error_handler.
FairSpec ==
    /\ Spec
    /\ WF_vars(GatewayTimesOut)
    /\ WF_vars(ReplyText)
    /\ WF_vars(FallbackOpenAI)
    /\ WF_vars(FallbackGeneric)
    /\ WF_vars(ErrorHandler)

----------------------------------------------------------------------------
\* Vocabulary of the properties.

IsPrefix(s, t) == Len(s) <= Len(t) /\ \A i \in 1..Len(s) : s[i] = t[i]

\* s occurs in t as a run of consecutive elements.
IsSegment(s, t) ==
    \E off \in 0..Len(t) :
        /\ off + Len(s) <= Len(t)
        /\ \A j \in 1..Len(s) : s[j] = t[off + j]

\* The conversation stored for user u.
Conversation(u) == user_data[u].conversation

\* cur is a text message given to handle_message.
TextMessage ==
    cur.op = "handle_message" /\ cur.hasMessage /\ cur.text \notin {None, ""}

\* cur is an update given to handle_message with no message or no text.
NoTextUpdate ==
    cur.op = "handle_message" /\ (~cur.hasMessage \/ cur.text \in {None, ""})

\* handle_message has returned, or has been left by an exception.
Returned == pc \in {"idle", "error_handler"}

\* The completion call of cur produced no content: None, "", no choice.
EmptyReply ==
    \/ cur.kind = "response" /\ cur.content \in {None, ""}
    \/ cur.kind = "no_choices"

\* The completion call of cur produced a non-empty reply.
GotReply == cur.kind = "response" /\ cur.content \notin {None, ""}

\* The history handed to the completion service in the call made for cur.
Window == Tail(request[1].messages)

UserTurn == [role |-> "user", content |-> cur.text]

----------------------------------------------------------------------------
\* C1: when the completion service is called with at least 10 turns in the
\* user's conversation, the history handed to it is exactly the last 10
\* turns of that conversation, in order, and its last element is the user
\* turn of the message being handled.
C1_WindowIsLastTen ==
    (TextMessage /\ Len(cur.atCall) >= 10) =>
        /\ Len(request) = 1
        /\ Len(Window) = 10
        /\ \A i \in 1..10 : Window[i] = cur.atCall[Len(cur.atCall) - 10 + i]
        /\ Window[10] = UserTurn
        /\ IsPrefix(cur.atCall, Conversation(cur.user))

\* A call made with 11 turns in the conversation: the oldest turn is cut.
C1_Witness ==
    /\ TextMessage
    /\ Len(request) = 1
    /\ Len(cur.atCall) > 10
    /\ cur.atCall[1] # cur.atCall[2]

\* C2: when the completion call fails (service error, timeout, transport
\* error, empty reply), the conversation is the one before the message plus
\* its user turn alone, and once the handler is done the one text handed to
\* reply_text is the fallback of that kind of failure.
C2_FailureKeepsHistoryAndFallsBack ==
    (TextMessage /\ (cur.kind \in OpenAIErrors \/ EmptyReply)) =>
        /\ Conversation(cur.user) = Append(cur.pre, UserTurn)
        /\ Returned =>
              /\ Len(outbox) = 1
              /\ outbox[1].text =
                    IF cur.kind \in OpenAIErrors
                    THEN "I'm having trouble connecting right now. Please try again in a moment."
                    ELSE "Something went wrong. Please try again."

\* A timeout in a conversation that already has turns, fallback delivered.
C2_Witness ==
    /\ TextMessage
    /\ cur.kind = "APITimeoutError"
    /\ pc = "idle"
    /\ cur.pre # <<>>
    /\ Len(outbox) = 1
    /\ outbox[1].ok

\* C3: when the completion call returns a non-empty reply, the conversation
\* is the one before the message plus the user turn plus one assistant turn
\* with that reply, and the first text handed to reply_text is that reply.
C3_ReplyIsRecordedAndSent ==
    (TextMessage /\ GotReply) =>
        /\ Conversation(cur.user) =
              cur.pre \o <<UserTurn, [role |-> "assistant", content |-> cur.content]>>
        /\ IF pc = "reply"
           THEN outbox = <<>>
           ELSE Len(outbox) >= 1 /\ outbox[1].text = cur.content

\* A reply recorded and delivered in a conversation that already has turns.
C3_Witness ==
    /\ TextMessage
    /\ GotReply
    /\ pc = "idle"
    /\ cur.pre # <<>>
    /\ outbox = <<[text |-> cur.content, ok |-> TRUE]>>

\* C4: a step changes the conversation of a user only when it handles a
\* message of that user, and the history handed to the completion service
\* is a run of the turns appended on behalf of the user of the message.
C4_UsersAreIsolated ==
    /\ [][\A b \in Users :
            user_data'[b] # user_data[b] =>
                cur'.op = "handle_message" /\ cur'.user = b]_vars
    /\ [](Len(request) = 1 => IsSegment(Window, appended[cur.user]))

\* A message handled for one user while another user has a conversation,
\* a different one.
C4_Witness ==
    /\ TextMessage
    /\ Len(request) = 1
    /\ \E b \in Users \ {cur.user} :
          /\ Conversation(b) # <<>>
          /\ Conversation(b) # Conversation(cur.user)
          /\ Conversation(b)[1] # Conversation(cur.user)[1]

\* C5: in every step, the conversation of every user before the step is a
\* prefix of the one after it, and a conversation created stays created.
C5_LogIsAppendOnly ==
    [][\A k \in Users :
          /\ IsPrefix(user_data[k].conversation, user_data'[k].conversation)
          /\ user_data[k].has => user_data'[k].has]_vars

\* A conversation longer than the window: it has not been cut.
C5_Witness == \E k \in Users : Len(Conversation(k)) > 10

\* C6: an update with no message or no text, given to handle_message,
\* changes no conversation, creates none, calls the completion service not
\* and hands nothing to reply_text.
C6_NoTextIsNoOp ==
    /\ [](NoTextUpdate => request = <<>> /\ outbox = <<>> /\ pc = "idle")
    /\ [][(cur'.op = "handle_message"
             /\ (~cur'.hasMessage \/ cur'.text \in {None, ""}))
          => user_data' = user_data /\ appended' = appended]_vars

\* A message with an empty text, of a user who still has no conversation
\* while another user has one.
C6_Witness ==
    /\ NoTextUpdate
    /\ cur.hasMessage
    /\ cur.text = ""
    /\ ~user_data[cur.user].has
    /\ \E b \in Users : user_data[b].has

\* C7: no exception leaves handle_message.
C7_NoExceptionEscapes == cur.op = "handle_message" => ~cur.escaped

\* C8: every assistant turn of every conversation has a non-empty content;
\* a response with an empty or null content adds the user turn alone and the
\* one text handed to reply_text is the generic fallback.
C8_EmptyReplyIsFailure ==
    /\ \A k \in Users : \A i \in 1..Len(Conversation(k)) :
          Conversation(k)[i].role = "assistant" =>
              Conversation(k)[i].content \notin {None, ""}
    /\ (TextMessage /\ cur.kind = "response" /\ cur.content \in {None, ""}) =>
          /\ Len(Conversation(cur.user)) = Len(cur.pre) + 1
          /\ Conversation(cur.user)[Len(cur.pre) + 1].role = "user"
          /\ pc # "reply"
          /\ Returned =>
                outbox[1].text = "Something went wrong. Please try again."

\* A response with an empty content, answered with the generic fallback.
C8_Witness ==
    /\ TextMessage
    /\ cur.kind = "response"
    /\ cur.content = ""
    /\ pc = "idle"
    /\ outbox = <<[text |-> GenericFallback, ok |-> TRUE]>>

\* C9: with TELEGRAM_BOT_TOKEN or OPENAI_API_KEY unset or empty, main() gets
\* no further than the configuration error: no client, no handler, no
\* polling, no update handled.
C9_MissingCredentialAborts ==
    (\E v \in {"TELEGRAM_BOT_TOKEN", "OPENAI_API_KEY"} : env[v] \in {None, ""}) =>
        /\ mainPc \in {"start", "config_error"}
        /\ client = None
        /\ handlers = {}
        /\ cur.op = "none"
        /\ handled = 0
        /\ \A k \in Users : ~user_data[k].has

\* Start-up aborted for the completion-service key alone.
C9_Witness ==
    /\ mainPc = "config_error"
    /\ env["TELEGRAM_BOT_TOKEN"] = "secret"
    /\ env["OPENAI_API_KEY"] = None

\* C10: /start hands the welcome text to reply_text and nothing else,
\* changes no conversation, creates none, and calls the completion service
\* not.
C10_StartTouchesNothing ==
    /\ [](cur.op = "start" =>
            /\ request = <<>>
            /\ pc = "idle"
            /\ outbox \in
                  IF cur.hasMessage
                  THEN {<<[text |-> WelcomeMessage, ok |-> ok]>> : ok \in BOOLEAN}
                  ELSE {<<>>})
    /\ [][cur'.op = "start" =>
            user_data' = user_data /\ appended' = appended]_vars

\* /start of a user with a conversation, and of one without: welcome sent.
C10_Witness ==
    /\ cur.op = "start"
    /\ cur.hasMessage
    /\ outbox = <<[text |-> WelcomeMessage, ok |-> TRUE]>>
    /\ user_data[cur.user].has
    /\ \E b \in Users : ~user_data[b].has

\* C11: a text message makes handle_message call the completion service
\* once: one request is made, while it is pending no call has ended, and
\* afterwards exactly one call has ended, in a non-empty reply or in a
\* failure (an OpenAIError, an empty reply); nothing later in the handler
\* makes another request.  An update without text makes none.
C11_OneCallPerMessage ==
    /\ [](TextMessage =>
            /\ Len(request) = 1
            /\ IF pc = "calling"
               THEN cur.attempts = 0 /\ cur.kind = None
               ELSE /\ cur.attempts = 1
                    /\ GotReply \/ cur.kind \in OpenAIErrors \/ EmptyReply
                    /\ ~(GotReply /\ EmptyReply))
    /\ [](~TextMessage => request = <<>> /\ cur.attempts = 0)
    /\ [][(pc \notin {"idle", "calling"}) =>
            request' = request /\ cur'.attempts = cur.attempts]_vars

\* A call that failed, and the handler done with its fallback: one call.
C11_Witness ==
    /\ TextMessage
    /\ cur.kind = "APIConnectionError"
    /\ Returned
    /\ cur.attempts = 1
    /\ Len(outbox) = 1

\* The texts handle_message may hand to reply_text for cur.
AnswerTexts ==
    {ConnectFallback, GenericFallback}
        \cup (IF GotReply THEN {cur.content} ELSE {})

\* C12: every text message given to handle_message leads to a state where
\* the handler has returned (or was left by an exception of reply_text)
\* after handing the reply or a fallback text to reply_text; a call that
\* timed out was answered with the connection fallback.
C12_EveryMessageIsAnswered ==
    TextMessage ~>
        (/\ TextMessage
         /\ Returned
         /\ Len(outbox) >= 1
         /\ \A i \in 1..Len(outbox) : outbox[i].text \in AnswerTexts
         /\ cur.kind = "APITimeoutError" => outbox[1].text = ConnectFallback)

\* The first message of a user timed out and was answered.
C12_Witness ==
    /\ TextMessage
    /\ cur.kind = "APITimeoutError"
    /\ cur.pre = <<>>
    /\ pc = "idle"
    /\ outbox = <<[text |-> ConnectFallback, ok |-> TRUE]>>

\* The handlers of text messages that run or wait, or ran last: their place
\* and their update.
TextHandlers ==
    {[pc |-> h.pc, cur |-> h.cur] : h \in parked}
        \cup (IF TextMessage THEN {[pc |-> pc, cur |-> cur]} ELSE {})

\* The turns of the message of handler h lie together in the conversation
\* of its user, right after the conversation the handler found: its user
\* turn, then its assistant turn if its call returned a reply, and if it
\* did not, nothing or the user turn of a later message.
TurnsTogether(h) ==
    LET log == Conversation(h.cur.user)
        n == Len(h.cur.pre)
        replied == h.cur.kind = "response" /\ h.cur.content \notin {None, ""}
    IN  /\ IsPrefix(h.cur.pre, log)
        /\ Len(log) >= n + 1
        /\ log[n + 1] = [role |-> "user", content |-> h.cur.text]
        /\ (h.pc # "calling" /\ replied) =>
              /\ Len(log) >= n + 2
              /\ log[n + 2] = [role |-> "assistant", content |-> h.cur.content]
        /\ (h.pc # "calling" /\ ~replied) =>
              Len(log) = n + 1 \/ log[n + 2].role = "user"

\* C13: with handlers running concurrently, the turns of every message lie
\* together and in order in the conversation (the assistant turn directly
\* after the user turn of its message), as if the messages had been handled
\* one after the other, and no step removes or moves a turn.
C13_ConcurrentHandlersSerialize ==
    /\ [](\A h \in TextHandlers : TurnsTogether(h))
    /\ [](\A u \in Users : Conversation(u) = appended[u])
    /\ [][\A u \in Users :
            IsPrefix(user_data[u].conversation,
                     user_data'[u].conversation)]_vars

\* Two handlers of the same user, both with a reply, both waiting in the
\* reply_text of line 116.
C13_Witness ==
    /\ TextMessage
    /\ GotReply
    /\ pc = "reply"
    /\ \E h \in parked :
          /\ h.cur.user = cur.user
          /\ h.pc = "reply"
          /\ h.cur.text # cur.text
    /\ Len(Conversation(cur.user)) = 4

\* C14: the history handed to the completion service is the whole
\* conversation when it has at most 10 turns and its last 10 turns, in
\* order, otherwise; for the first message of a user it is the user turn of
\* that message alone; and the conversation after the read is the one the
\* handler found plus that user turn.
C14_WindowRead ==
    TextMessage =>
        /\ Len(request) = 1
        /\ LET log == cur.atCall
               cut == IF Len(log) <= 10 THEN 0 ELSE Len(log) - 10
           IN  /\ Len(Window) = Len(log) - cut
               /\ \A i \in 1..Len(Window) : Window[i] = log[cut + i]
        /\ cur.pre = <<>> => Window = <<UserTurn>>
        /\ cur.atCall = Append(cur.pre, UserTurn)
        /\ pc = "calling" => Conversation(cur.user) = cur.atCall

\* The first message of a user, its call pending, while the other user has
\* a conversation: the history is that one turn.
C14_Witness ==
    /\ TextMessage
    /\ pc = "calling"
    /\ cur.pre = <<>>
    /\ Len(request) = 1
    /\ Window = <<UserTurn>>
    /\ \E b \in Users \ {cur.user} : Len(Conversation(b)) >= 2

\* C15: every request to the completion service has the system prompt as
\* its first message and nowhere else, then the last 10 turns (or all) of
\* the conversation in order, and the options gpt-4o, 0.7, 400, 30.0.
C15_FixedDirectiveAndOptions ==
    \A i \in 1..Len(request) :
        LET q == request[i]
            log == cur.atCall
            cut == IF Len(log) <= 10 THEN 0 ELSE Len(log) - 10
        IN  /\ Len(q.messages) = 1 + Len(log) - cut
            /\ q.messages[1] = [role |-> "system", content |-> SYSTEM_PROMPT]
            /\ \A j \in 2..Len(q.messages) :
                  /\ q.messages[j] = log[cut + j - 1]
                  /\ q.messages[j].role # "system"
            /\ q.model = "gpt-4o"
            /\ q.temperature = "0.7"
            /\ q.max_tokens = 400
            /\ q.timeout = "30.0"

\* A request pending for a conversation of more than 10 turns: the system
\* prompt, then the ten turns left, the first of them an assistant turn.
C15_Witness ==
    /\ pc = "calling"
    /\ Len(request) = 1
    /\ Len(cur.atCall) > 10
    /\ Len(request[1].messages) = 11
    /\ request[1].messages[2].role = "assistant"

\* The number of turns of role r among the first n turns of s.
RECURSIVE CountRole(_, _, _)
CountRole(s, r, n) ==
    IF n = 0 THEN 0
    ELSE CountRole(s, r, n - 1) + (IF s[n].role = r THEN 1 ELSE 0)

\* C16: with messages handled one at a time, every conversation that has
\* turns starts with a user turn, every assistant turn comes directly after
\* a user turn, no prefix of a conversation has more assistant turns than
\* user turns, and once the call for a message has ended the conversation
\* ends with a user turn exactly when the call did not return a reply.
C16_TurnsAlternate ==
    /\ \A u \in Users :
          LET c == Conversation(u)
          IN  /\ c # <<>> => c[1].role = "user"
              /\ \A i \in 1..Len(c) :
                    /\ c[i].role \in {"user", "assistant"}
                    /\ c[i].role = "assistant" =>
                          i > 1 /\ c[i - 1].role = "user"
                    /\ CountRole(c, "assistant", i) <= CountRole(c, "user", i)
    /\ (TextMessage /\ pc # "calling") =>
          LET c == Conversation(cur.user)
          IN  (c[Len(c)].role = "user") <=> ~GotReply

\* Two user turns in a row, the first of a failed message, then a reply;
\* the message handled last failed too.
C16_Witness ==
    /\ TextMessage
    /\ pc = "idle"
    /\ ~GotReply
    /\ LET c == Conversation(cur.user)
       IN  /\ Len(c) = 4
           /\ c[1].role = "user"
           /\ c[2].role = "user"
           /\ c[3].role = "assistant"

\* C17: for a text message, a fallback text is handed to reply_text only if
\* no assistant turn was appended for the message, and once the handler is
\* done an assistant turn is in the conversation only if reply_text
\* delivered the reply.
C17_FallbackOnlyWithoutAssistantTurn ==
    TextMessage =>
        /\ (\E i \in 1..Len(outbox) :
                outbox[i].text \in {ConnectFallback, GenericFallback})
              => Conversation(cur.user) = Append(cur.pre, UserTurn)
        /\ (Returned /\ Len(Conversation(cur.user)) = Len(cur.pre) + 2)
              => \E i \in 1..Len(outbox) :
                     outbox[i].text = cur.content /\ outbox[i].ok

\* The reply_text calls of cur that returned without raising.
Delivered == {i \in 1..Len(outbox) : outbox[i].ok}

\* C18: of the reply_text calls made for a text message at most one
\* returns without raising, it is the last one made, and its text is the
\* reply of the completion call of that message or one of the two fallback
\* texts; an update without text makes no reply_text call.
C18_AtMostOneAnswerDelivered ==
    /\ TextMessage =>
          /\ Cardinality(Delivered) <= 1
          /\ \A i \in Delivered :
                /\ i = Len(outbox)
                /\ outbox[i].text \in AnswerTexts
          /\ Len(outbox) <= 2
    /\ NoTextUpdate => outbox = <<>>

\* The reply could not be sent, the generic fallback was delivered.
C18_Witness ==
    /\ TextMessage
    /\ GotReply
    /\ pc = "idle"
    /\ outbox = <<[text |-> cur.content, ok |-> FALSE],
                  [text |-> GenericFallback, ok |-> TRUE]>>

====
